---- MODULE Spec2Model ----
(***************************************************************************)
(* Model of the ETL orchestration of Rabbit-in-a-Blender:                  *)
(*   - EtlBase.__init__ and the foreign-key dependency resolver            *)
(*     (src/src/riab/etl/etl_base.py),                                     *)
(*   - Etl.run and Etl._process_omop_folder (src/omop-etl/etl/etl.py),     *)
(*     with the statements of the BigQuery back end                        *)
(*     (src/omop-etl/etl/bigquery/bigquery.py) as the external steps.      *)
(***************************************************************************)
EXTENDS Integers, Sequences, FiniteSets, TLC

(***************************************************************************)
(* Bounds of the model.                                                    *)
(***************************************************************************)
\* largest working table set of the resolver specification
MaxTables == 3
\* largest number of foreign-key rows of the catalog (resolver specification)
MaxFks == 3
\* largest number of foreign-key rows of the catalog (run specification)
MaxRunFks == 2
\* largest number of concept_id columns of one table
MaxConceptColumns == 2
\* largest number of source query files of one table
MaxSqlFiles == 2
\* the days a run can span after the day it was started
MaxDays == 1
\* largest number of rows the query of one file stages
MaxStagedRows == 1
\* largest number of calls of the resolver on a constructed object
MaxResolveCalls == 2
\* passes of the while loop of the resolver after which the model takes the
\* loop to run on (no catalog of MaxTables tables needs that many)
MaxLoopPasses == 4
\* largest configured maximum (of parallel tables, of workers per table) the
\* concurrency bound is checked for
MaxPoolSize == 2
\* tables whose runs left work tables in the work dataset cleanup() finds
MaxCleanedTables == 2

(***************************************************************************)
(* Table names.  NameOrder lists them in ascending lexicographic order,    *)
(* which is the order Python's sorted() gives to these strings.            *)
(***************************************************************************)
NameOrder ==
    <<"condition_occurrence", "death", "measurement", "note", "note_nlp",
      "person", "visit_occurrence">>

TableNames == {NameOrder[i] : i \in 1..Len(NameOrder)}

\* the table names the catalogs of the resolver specification are built from
ResolverTables ==
    {"condition_occurrence", "note", "note_nlp", "person", "visit_occurrence"}

\* a foreign key can also point into the vocabulary (concept), which is never
\* part of the working table set
FkTargets == ResolverTables \cup {"concept"}

NoTable == "none"

Rank(n) == CHOOSE i \in 1..Len(NameOrder) : NameOrder[i] = n

\* fault: the tier is listed in descending order
RECURSIVE sorted_reverse(_)
sorted_reverse(S) ==
    IF S = {} THEN <<>>
    ELSE LET m == CHOOSE x \in S : \A y \in S : Rank(x) >= Rank(y)
         IN  <<m>> \o sorted_reverse(S \ {m})

\* sorted(set of table names)
RECURSIVE sorted(_)
sorted(S) ==
    IF S = {} THEN <<>>
    ELSE LET m == CHOOSE x \in S : \A y \in S : Rank(x) <= Rank(y)
         IN  <<m>> \o sorted(S \ {m})

\* all subsets of S with at most n elements
RECURSIVE SubsetsUpTo(_, _)
SubsetsUpTo(S, n) ==
    IF n = 0 THEN {{}}
    ELSE LET P == SubsetsUpTo(S, n - 1)
         IN  P \cup {p \cup {x} : p \in P, x \in S}

\* all orderings of the set S
RECURSIVE Orderings(_)
Orderings(S) ==
    IF S = {} THEN {<<>>}
    ELSE UNION {{<<x>> \o s : s \in Orderings(S \ {x})} : x \in S}

(***************************************************************************)
(* Values of the concept mapping and of the key handling.                  *)
(***************************************************************************)
\* Etl._CUSTOM_CONCEPT_IDS_START
CUSTOM_CONCEPT_IDS_START == 2000000000

\* the concept_code values a custom concept CSV can list, in ascending order
ConceptCodeOrder == <<"c1", "c2">>

ConceptCodes == {ConceptCodeOrder[i] : i \in 1..Len(ConceptCodeOrder)}

\* the sourceCode values a Usagi CSV can list, in ascending order; "c1" is
\* also the code of a custom concept
SourceCodeOrder == <<"c1", "s1">>

SourceCodes == {SourceCodeOrder[i] : i \in 1..Len(SourceCodeOrder)}

\* the conceptId a Usagi CSV gives to a source code: a concept of the
\* vocabulary, or 0 for a source code that is mapped to a custom concept
UsagiConceptId(code) == IF code \in ConceptCodes THEN 0 ELSE 1

MappingStatuses == {"APPROVED", "UNCHECKED"}

\* the table of the concept specification
ConceptTables == {"person"}

\* a custom concept an earlier run gave an id
PriorSwap == (<<"person", 1, "c2">> :> (CUSTOM_CONCEPT_IDS_START + 1))

\* a mapping an earlier run stored, the day before this run
OldRow(code) ==
    [source_code |-> code, column |-> 1, table |-> "person",
     target_concept_id |-> 1, touched |-> -1, invalid_reason |-> "NULL"]

\* the mapping table an earlier run left: "s0" is no source code of the
\* folder any more, "s1" can still be one
PriorMap == <<OldRow("s0"), OldRow("s1")>>

\* the tables whose event column is inferred from the name of the query file
\* (etl.py:187-192), as far as they are table names of the model
EventTables == {"measurement"}

\* the event column of an event table (etl.py:198-206)
EventColumn(t) ==
    IF t = "measurement" THEN "measurement_event_id" ELSE "event_id"

\* the names the inferred table is accepted from (etl.py:209-228)
EventFkTables ==
    {"location", "care_site", "provider", "episode_event", "person",
     "observation_period", "visit_occurrence", "visit_detail",
     "condition_occurence", "drug_exposure", "procedure_occurrence",
     "device_exposure", "measurement", "observation", "note", "note_nlp",
     "specimen"}

\* no match of the regular expression on the file name
NoGroup == "none"

\* the base names of the query files, without ".sql" or ".sql.jinja", as the
\* list of their pieces between underscores: b.sql, a_death.sql, lab_note.sql,
\* lab_person.sql, lab_visit_occurrence.sql
FileNames ==
    {<<"b">>, <<"a", "death">>, <<"lab", "note">>, <<"lab", "person">>,
     <<"lab", "visit", "occurrence">>}

\* no query file
NoFile == <<>>

\* the base names of the *.sql.jinja files: a_person.sql.jinja
JinjaNames == {<<"a", "person">>}

\* the base names of the query files of a table that is no event table:
\* b.sql, c.sql, ...
PlainNames == <<"b", "c", "d", "e">>

\* the base names in the ascending order in which Python compares the paths
\* of one folder that have the same extension
FileNameOrder ==
    <<<<"a", "death">>, <<"a", "person">>, <<"b">>, <<"c">>, <<"d">>, <<"e">>,
      <<"lab", "note">>, <<"lab", "person">>, <<"lab", "visit", "occurrence">>>>

FileRank(name) ==
    CHOOSE i \in 1..Len(FileNameOrder) : FileNameOrder[i] = name

\* a query file: its base name and whether it is a *.sql.jinja file
SqlFile(name, jinja) == [name |-> name, jinja |-> jinja]

\* the query files the folder of an event table can hold
EventFiles ==
    {SqlFile(n, FALSE) : n \in FileNames}
        \cup {SqlFile(n, TRUE) : n \in JinjaNames}

\* what the two globs can find in the folder of table t when it holds at
\* most n query files (and at least one)
Globs(t, n) ==
    IF t \in EventTables
    THEN {g \in SUBSET EventFiles : Cardinality(g) \in 1..n}
    ELSE {{SqlFile(<<PlainNames[i]>>, FALSE) : i \in 1..k} : k \in 1..n}

\* sorted(glob.glob(...)): the files of one extension by ascending name
RECURSIVE sorted_files(_)
sorted_files(S) ==
    IF S = {} THEN <<>>
    ELSE LET f == CHOOSE x \in S :
                      \A y \in S : FileRank(x.name) <= FileRank(y.name)
         IN  <<f>> \o sorted_files(S \ {f})

\* fault: one sorted list of all the query files, whatever their extension
SqlFileListByName(files) == sorted_files(files)

\* the files the loop goes through: the sorted *.sql files, then the sorted
\* *.sql.jinja files
SqlFileList(files) ==
    sorted_files({f \in files : ~f.jinja})
        \o sorted_files({f \in files : f.jinja})

\* re.search(r"^.+_(?P<first>.+)(?:[.]sql)(?:[.]jinja)?$", name): ".+_" is
\* greedy and takes everything up to the last underscore, so the group is the
\* last piece of the name; a name without underscore does not match
FirstGroup(name) ==
    IF Len(name) >= 2 THEN name[Len(name)] ELSE NoGroup

Stages ==
    {"NOT_STARTED", "START", "LOAD_CONCEPTS", "LOAD_CODE_MAPPINGS",
     "STAGE_QUERY", "SWAP_KEYS", "MERGE", "DONE", "FAILED"}

VARIABLES
    omop_tables,          \* the working table set (_df_omop_tables, schema CDM)
    df_omop_fields,       \* table -> the fkTableName values of its field rows
    resolved,             \* _cdm_tables_fks_dependencies_resolved
    resolve_calls,        \* history: calls of the resolver after __init__
    error,                \* the exception that left the constructor or run()
    pc,                   \* "new", "looping", "constructed", "ctor_raised",
                          \* "running", "returned", "raised"
    schema_order,         \* the tables of cdm_5.4_schema.json, in file order
    only_omop_table,      \* Etl._only_omop_table (NoTable: a full run)
    skip_upload,          \* Etl._skip_usagi_and_custom_concept_upload
    todo,                 \* the tables run() still has to process, in order
    stage,                \* table -> the stage its pipeline is in
    concept_columns,      \* number of concept_id columns of the current table
    col,                  \* the concept column being handled (1-based)
    sql_files,            \* number of query files of the current table
    file,                 \* the query file being handled (1-based)
    pk_auto_numbering,    \* pk_auto_numbering of the current table
    today,                \* date.today()
    etl_start,            \* the local etl_start of run()
    run_start_day,        \* history: the day on which run() was entered
    invalidate_count,     \* calls of _source_to_concept_map_update_invalid_reason
    invalidate_cutoff,    \* the etl_start parameter of the last such call
    cdm_folder,           \* what the files under _cdm_folder_path hold at most
    omop_table_props,     \* Etl._omop_tables: table -> its pk and fks
    foreign_key_columns,  \* the local foreign_key_columns, for the current file
    sql_file_list,        \* the query files the loop over the files goes through
    sql_file,             \* the base name of the current file, in pieces
    sql_group,            \* the group the file name of the current file gives
    pk_data_type,         \* data_type of the pk column of the current table
    work_table,           \* the rows the query of the current file staged
    omop_rows,            \* table -> what the merges put into the OMOP table
    run_result,           \* the value run() returned
    concept_id_swap,      \* work table concept_id_swap: custom concept -> id
    concept,              \* the OMOP table concept
    usagi,                \* the work tables {omop_table}__{column}_usagi
    source_to_concept_map,\* the OMOP table source_to_concept_map
    issued,               \* the statements the last concept call issued
    cleanup_table,        \* the argument cleanup_table of the last cleanup()
    work_tables,          \* the local work_tables of the last cleanup()
    work_dataset,         \* the names of the tables of the work dataset
    cleanup_statements    \* the statements the last cleanup() issued, in order

vars ==
    <<omop_tables, df_omop_fields, resolved, resolve_calls, error, pc,
      schema_order, only_omop_table, skip_upload, todo, stage, concept_columns, col,
      sql_files, file, pk_auto_numbering, today, etl_start, run_start_day,
      invalidate_count, invalidate_cutoff, cdm_folder, omop_table_props,
      foreign_key_columns, sql_file_list, sql_file, sql_group, pk_data_type,
      work_table, omop_rows, run_result, concept_id_swap, concept, usagi,
      source_to_concept_map, issued, cleanup_table, work_tables,
      work_dataset, cleanup_statements>>

catalogVars ==
    <<omop_tables, schema_order, only_omop_table, skip_upload, resolve_calls>>

runVars ==
    <<todo, stage, concept_columns, col, sql_files, file, pk_auto_numbering,
      today, etl_start, run_start_day, invalidate_count, invalidate_cutoff>>

\* the folder: nothing writes it
folderVars == <<cdm_folder>>

\* what cleanup() reads and writes
cleanupVars ==
    <<cleanup_table, work_tables, work_dataset, cleanup_statements>>

\* the key handling of _process_omop_folder
keyVars ==
    <<omop_table_props, foreign_key_columns, sql_file_list, sql_file,
      sql_group, pk_data_type, work_table, omop_rows, run_result>>

\* the tables of the concept mapping
conceptVars ==
    <<concept_id_swap, concept, usagi, source_to_concept_map, issued>>

(***************************************************************************)
(* EtlBase: the foreign-key dependency resolver.                           *)
(* A dict of Python is a function whose DOMAIN is the set of its keys.     *)
(***************************************************************************)

\* fault: the catalog is used as it was loaded
KeepNoteNlp(fields) == fields

\* the NOTE_NLP.NOTE_ID row is made a foreign key to NOTE
PatchNoteNlp(fields) ==
    [fields EXCEPT !["note_nlp"] = @ \cup {"note"}]

\* rows of the working tables whose fkTableName is null or a working table,
\* grouped by table, nulls dropped: fields[k] \cap tables are the non-null
\* values that pass the filter.  Every table of the CDM has columns that are
\* no foreign key, and the filter keeps their rows (fkTableName is null), so
\* every working table is a key of the dict, with an empty list when none of
\* its foreign keys points into the working set.  Table names are compared
\* as the catalog writes them; the catalog is taken to use one letter case,
\* so that lower() (line 155) maps distinct names to distinct names.
GroupFks(fields, tables) ==
    [k \in tables |-> fields[k] \cap tables]

\* fault: references of a table to itself stay in the dict
KeepSelfReferences(d) == d

\* "remove circular references": a table's reference to itself is dropped
RemoveSelfReferences(d) ==
    [k \in DOMAIN d |-> d[k] \ {k}]

TablesWithNoFks(d) == {k \in DOMAIN d : d[k] = {}}

DropFirstTierKeys(d, no_fks) ==
    [k \in (DOMAIN d) \ no_fks |-> d[k]]

DropFirstTier(d, no_fks) ==
    [k \in (DOMAIN d) \ no_fks |-> d[k] \ no_fks]

\* the set t of one pass of the while loop
NextTierAll(d) == DOMAIN d

NextTier(d) ==
    ((UNION {d[k] : k \in DOMAIN d}) \ DOMAIN d)
        \cup {k \in DOMAIN d : d[k] = {}}

\* fault: the tables of the tier stay in the foreign-key sets
CleanUpKeysOnly(d, t) ==
    [k \in {x \in DOMAIN d : d[x] # {}} |-> d[k]]

\* "and cleaned up"
CleanUp(d, t) ==
    [k \in {x \in DOMAIN d : d[x] # {}} |-> d[k] \ t]

\* Exception("Circular reference in FKs dependency graph"): the arguments of
\* the exception are the one message
CircularMessage == "Circular reference in FKs dependency graph"

NoError == [type |-> "none", args |-> <<>>]

CircularError == [type |-> "Exception", args |-> <<CircularMessage>>]

\* the raise of the loop: no tree is returned
CircularReferenceBreak(tree) ==
    [raised |-> FALSE, looping |-> FALSE, tree |-> tree]

CircularReference(tree) ==
    [raised |-> TRUE, looping |-> FALSE, tree |-> <<>>]

\* the loop is still running: the call has neither returned nor raised
StillLooping == [raised |-> FALSE, looping |-> TRUE, tree |-> <<>>]

\* the while loop, n passes of which are followed
RECURSIVE ResolveLoop(_, _, _)
ResolveLoop(tree, d, n) ==
    IF DOMAIN d = {} THEN [raised |-> FALSE, looping |-> FALSE, tree |-> tree]
    ELSE IF n = 0 THEN StillLooping
    ELSE LET t == NextTier(d)
         IN  IF t = {} THEN CircularReference(tree)
             ELSE ResolveLoop(Append(tree, sorted(t)), CleanUp(d, t), n - 1)

build_fk_dependency_tree_of_tables(fields, tables) ==
    LET d0     == RemoveSelfReferences(GroupFks(fields, tables))
        no_fks == TablesWithNoFks(d0)
    IN  ResolveLoop(<<sorted(no_fks)>>, DropFirstTier(d0, no_fks),
                    MaxLoopPasses)

\* fault: the resolver stores its table dict, self-references removed, as the
\* catalog
resolve_and_write_back ==
    /\ pc = "constructed"
    /\ resolve_calls < MaxResolveCalls
    /\ LET r == build_fk_dependency_tree_of_tables(df_omop_fields, omop_tables)
       IN  /\ ~r.raised
           /\ resolved' = r.tree
    /\ df_omop_fields' =
           [t \in DOMAIN df_omop_fields |-> df_omop_fields[t] \ {t}]
    /\ resolve_calls' = resolve_calls + 1
    /\ UNCHANGED <<omop_tables, schema_order, only_omop_table, skip_upload,
                   error, pc, runVars, folderVars, cleanupVars, keyVars, conceptVars>>

\* _resolve_cdm_tables_fks_dependencies called on the constructed object: the
\* table list is read from _df_omop_tables, the tiers are built from
\* _df_omop_fields in locals and stored; an exception leaves the call
resolve_cdm_tables_fks_dependencies ==
    /\ pc = "constructed"
    /\ resolve_calls < MaxResolveCalls
    /\ LET r == build_fk_dependency_tree_of_tables(df_omop_fields, omop_tables)
       IN  IF r.looping
           THEN /\ pc' = "looping"
                /\ error' = error
                /\ resolved' = resolved
           ELSE IF r.raised
           THEN /\ pc' = "ctor_raised"
                /\ error' = CircularError
                /\ resolved' = resolved
           ELSE /\ pc' = pc
                /\ error' = error
                /\ resolved' = r.tree
    /\ resolve_calls' = resolve_calls + 1
    /\ UNCHANGED <<omop_tables, df_omop_fields, schema_order, only_omop_table,
                   skip_upload, runVars, folderVars, cleanupVars, keyVars, conceptVars>>

(***************************************************************************)
(* The foreign-key graph of the working set, stated independently of the   *)
(* resolver: the edges the catalog declares between working tables,        *)
(* references of a table to itself left out.                               *)
(***************************************************************************)
GraphOf(fields, tables) ==
    [t \in tables |-> (fields[t] \cap tables) \ {t}]

FkGraph == GraphOf(df_omop_fields, omop_tables)

RECURSIVE ReachIn(_, _, _)
ReachIn(G, S, n) ==
    IF n = 0 THEN S
    ELSE ReachIn(G, S \cup UNION {G[u] : u \in S}, n - 1)

\* the tables reachable from t along one or more edges
Reachable(G, t) == ReachIn(G, G[t], Cardinality(DOMAIN G))

OnCycle(G) == {t \in DOMAIN G : t \in Reachable(G, t)}

IsCyclic(G) == OnCycle(G) # {}

\* the 0-based tiers that hold table t
TiersOf(tree, t) ==
    {i \in 0..(Len(tree) - 1) : \E j \in 1..Len(tree[i + 1]) : tree[i + 1][j] = t}

TierSet(tree, i) == {tree[i + 1][j] : j \in 1..Len(tree[i + 1])}

(***************************************************************************)
(* Construction: EtlBase.__init__                                          *)
(***************************************************************************)
\* fault: the constructor swallows the exception of the resolver
ConstructSwallowsError ==
    /\ pc = "new"
    /\ LET fields == PatchNoteNlp(df_omop_fields)
           r      == build_fk_dependency_tree_of_tables(fields, omop_tables)
       IN  /\ df_omop_fields' = fields
           /\ pc' = "constructed"
           /\ error' = error
           /\ resolved' = r.tree
    /\ UNCHANGED <<catalogVars, runVars, folderVars, cleanupVars, keyVars, conceptVars>>

\* __init__: the NOTE_NLP correction, then _resolve_cdm_tables_fks_dependencies;
\* an exception of the resolver leaves the constructor
Construct ==
    /\ pc = "new"
    /\ LET fields == PatchNoteNlp(df_omop_fields)
           r      == build_fk_dependency_tree_of_tables(fields, omop_tables)
       IN  /\ df_omop_fields' = fields
           /\ IF r.looping
              THEN /\ pc' = "looping"
                   /\ error' = error
                   /\ resolved' = resolved
              ELSE IF r.raised
              THEN /\ pc' = "ctor_raised"
                   /\ error' = CircularError
                   /\ resolved' = resolved
              ELSE /\ pc' = "constructed"
                   /\ error' = error
                   /\ resolved' = r.tree
    /\ UNCHANGED <<catalogVars, runVars, folderVars, cleanupVars, keyVars, conceptVars>>

(***************************************************************************)
(* The statements of the concept mapping.  The SQL templates the back end  *)
(* renders are not part of the sources at hand; what a template does is    *)
(* taken from the specification (sections 3 and 4.2).  A custom concept is *)
(* the triple <<omop_table, concept column, concept_code>>.                *)
(***************************************************************************)
MaxOf(S) == CHOOSE x \in S : \A y \in S : y <= x

ConceptCodeRank(code) ==
    CHOOSE i \in 1..Len(ConceptCodeOrder) : ConceptCodeOrder[i] = code

SourceCodeRank(code) ==
    CHOOSE i \in 1..Len(SourceCodeOrder) : SourceCodeOrder[i] = code

\* the custom concepts the CSV files of one column list
CustomConceptsOf(t, c, codes) == {<<t, c, code>> : code \in codes}

\* template CONCEPT_ID_swap_merge: every concept of the upload table that has
\* no id yet gets a new id, greater than min_custom_concept_id and than every
\* id given before; a concept that has an id keeps it
CONCEPT_ID_swap_merge(swap, uploaded, min_custom_concept_id) ==
    LET new    == uploaded \ DOMAIN swap
        base   == MaxOf({min_custom_concept_id} \cup {swap[k] : k \in DOMAIN swap})
        pos(k) == Cardinality({j \in new :
                      ConceptCodeRank(j[3]) <= ConceptCodeRank(k[3])})
    IN  [k \in (DOMAIN swap) \cup new |->
            IF k \in DOMAIN swap THEN swap[k] ELSE base + pos(k)]

\* fault: the template is rendered without the start of the reserved ids
give_custom_concepts_an_id_above_zero(swap, uploaded) ==
    CONCEPT_ID_swap_merge(swap, uploaded, 0)

\* _give_custom_concepts_an_unique_id_above_2bilj: the template is rendered
\* with min_custom_concept_id = Etl._CUSTOM_CONCEPT_IDS_START
give_custom_concepts_an_unique_id_above_2bilj(swap, uploaded) ==
    CONCEPT_ID_swap_merge(swap, uploaded, CUSTOM_CONCEPT_IDS_START)

\* template CONCEPT_merge: the uploaded concepts, with their ids, are put
\* into the concept table
CONCEPT_merge(concepts, swap, uploaded) ==
    concepts \cup {[concept_id |-> swap[k], concept_code |-> k[3]] :
                      k \in uploaded}

\* fault: the handler goes on without rows
UploadNeverReturns(codes) == FALSE

\* "if not ar_table: return": no CSV file, or no row in any of them
UploadReturns(codes) == codes = {}

\* the statements _upload_custom_concepts issues
UploadStatements(codes) ==
    <<"clear_custom_concept_upload_table",
      "create_custom_concept_id_swap_table">>
    \o (IF UploadReturns(codes) THEN <<>>
        ELSE <<"load_custom_concepts_parquet_in_upload_table",
               "give_custom_concepts_an_unique_id_above_2bilj",
               "merge_custom_concepts_with_the_omop_concepts">>)

\* the row a Usagi CSV holds for a source code
UsagiCsvRow(code, status) ==
    [sourceCode |-> code, mappingStatus |-> status,
     conceptId |-> UsagiConceptId(code)]

\* the contents the Usagi CSV files of a column can have over source codes
UsagiCsvs(codes) ==
    UNION {{{UsagiCsvRow(code, f[code]) : code \in D} :
               f \in [D -> MappingStatuses]} : D \in SUBSET codes}

\* template {omop_table}__{concept_id_column}_usagi_merge: the source code of
\* a custom concept gets the id of the concept and the status APPROVED, every
\* other row keeps the concept of the vocabulary the CSV names
usagi_merge(rows, swap, t, c) ==
    {[table |-> t, column |-> c, sourceCode |-> r.sourceCode,
      mappingStatus |-> IF <<t, c, r.sourceCode>> \in DOMAIN swap
                        THEN "APPROVED" ELSE r.mappingStatus,
      conceptId |-> IF <<t, c, r.sourceCode>> \in DOMAIN swap
                    THEN swap[<<t, c, r.sourceCode>>] ELSE r.conceptId] :
        r \in rows}

\* fault: every mapping takes part, whatever its status
ApprovedOrNot(rows) == rows

\* the mappings that take part in a merge: the approved ones
Approved(rows) == {r \in rows : r.mappingStatus = "APPROVED"}

SameKey(row, r) ==
    /\ row.source_code = r.sourceCode
    /\ row.column = r.column
    /\ row.table = r.table

MapRow(r, day) ==
    [source_code |-> r.sourceCode, column |-> r.column, table |-> r.table,
     target_concept_id |-> r.conceptId, touched |-> day,
     invalid_reason |-> "NULL"]

\* fault: the mapping is inserted whether or not its key is in the table
Insert(map, r, day) == Append(map, MapRow(r, day))

\* one mapping is written: the row of its key is overwritten, or a row is
\* added when the table has none for the key
Upsert(map, r, day) ==
    IF \E i \in 1..Len(map) : SameKey(map[i], r)
    THEN [i \in 1..Len(map) |->
             IF SameKey(map[i], r) THEN MapRow(r, day) ELSE map[i]]
    ELSE Append(map, MapRow(r, day))

\* the mappings written one after the other, in the order of the source codes
RECURSIVE UpsertAll(_, _, _)
UpsertAll(map, rows, day) ==
    IF rows = {} THEN map
    ELSE LET r == CHOOSE x \in rows : \A y \in rows :
                      SourceCodeRank(x.sourceCode) <= SourceCodeRank(y.sourceCode)
         IN  UpsertAll(Upsert(map, r, day), rows \ {r}, day)

\* template SOURCE_TO_CONCEPT_MAP_merge: every approved mapping of the usagi
\* table of the column is written
SOURCE_TO_CONCEPT_MAP_merge(map, rows, day) ==
    UpsertAll(map, Approved(rows), day)

\* template SOURCE_TO_CONCEPT_MAP_update_invalid_reason: a row that was last
\* written before the day @etl_start is marked invalid; no row is removed
SOURCE_TO_CONCEPT_MAP_update_invalid_reason(map, cutoff) ==
    [i \in 1..Len(map) |->
        IF map[i].touched < cutoff
        THEN [map[i] EXCEPT !.invalid_reason = "D"]
        ELSE map[i]]

\* the statements _apply_usagi_mapping issues
ApplyStatements(rows) ==
    <<"clear_usagi_upload_table", "create_usagi_upload_table">>
    \o (IF rows = {} THEN <<>>
        ELSE <<"load_usagi_parquet_in_upload_table",
               "swap_usagi_source_value_for_concept_id",
               "store_usagi_source_value_to_concept_id_mapping">>)

(***************************************************************************)
(* The key handling of _process_omop_folder.  A foreign key of a table is  *)
(* the pair <<column, referenced table>>; the column of a foreign key the  *)
(* schema file declares is named after the table it refers to.             *)
(***************************************************************************)
\* the data types a primary key column can have in the database
DataTypes == {"INT64", "STRING"}

NoType == "none"

\* BigQuery._is_pk_auto_numbering, once the metadata of the column is read
is_pk_auto_numbering(data_type) == data_type = "INT64"

\* omop_table_props.pk of a table the schema file gives no pk
AttributeError == [type |-> "AttributeError", args |-> <<"pk">>]

NoRows == [rows |-> 0, dangling |-> 0]

\* the results a query can stage: rows, and among them the rows whose foreign
\* key value is in no swap table
StagedRows(max) ==
    {w \in [rows : 0..max, dangling : 0..max] : w.dangling <= w.rows}

\* the schema file: the tables of pks have a pk, the tables of fkd have fks,
\* which are the foreign keys the field catalog declares between the tables
PropsOf(tables, fields, pks, fkd) ==
    [t \in tables |->
        [has_pk  |-> t \in pks,
         has_fks |-> t \in fkd,
         fks     |-> IF t \in fkd
                     THEN {<<u, u>> : u \in fields[t] \cap TableNames}
                     ELSE {}]]

\* getattr(omop_table_props, "fks", <an empty namespace>)
FksOf(props) == IF props.has_fks THEN props.fks ELSE {}

\* the foreign key the name of the query file gives to the event column
InferredFk(t, group) ==
    IF /\ t \in EventTables
       /\ group # NoGroup
       /\ group \in EventFkTables \cup {"death"}
    THEN {<<EventColumn(t), group>>}
    ELSE {}

\* foreign_key_columns[fk_column] = {...}
SetItems(fkc, items) ==
    {e \in fkc : \A n \in items : e[1] # n[1]} \cup items

\* template {omop_table}_merge, as the specification states it: every staged
\* row is inserted, the value of a foreign key column that has no swap entry
\* becomes null, and the concept columns take the concepts of the approved
\* mappings
omop_table_merge(into, staged, fks, mappings) ==
    [rows        |-> into.rows + staged.rows,
     null_fks    |-> into.null_fks + (IF fks = {} THEN 0 ELSE staged.dangling),
     concept_ids |-> into.concept_ids \cup
                         {r.conceptId : r \in Approved(mappings)}]

\* run() has no return statement
None == "None"

\* run() has not returned
NotReturned == "not returned"

(***************************************************************************)
(* Etl.run and Etl._process_omop_folder.                                   *)
(* stage[t] is the stage the pipeline of table t is executing; a step to   *)
(* the next stage ends the calls of the stage before it.  The code has no  *)
(* try/except: an exception of any call of a table's pipeline leaves       *)
(* run(); "FAILED" marks the table whose pipeline raised it.               *)
(***************************************************************************)
CurrentTable == Head(todo)

InTable(stages) ==
    /\ pc = "running"
    /\ todo # <<>>
    /\ stage[CurrentTable] \in stages

\* fault: the loop over the query files does not wait for the loop over the
\* concept_id columns
ColumnsNotAwaited == InTable({"START", "LOAD_CODE_MAPPINGS"})

\* the loop over the concept_id columns is over (or is skipped)
ConceptsFinished ==
    /\ InTable({"START", "LOAD_CODE_MAPPINGS"})
    /\ skip_upload \/ col = concept_columns

ExecutorError == [type |-> "Exception", args |-> <<"executor error">>]

\* the exception Python raises in the running call when the run is
\* interrupted: run() takes no cancellation signal of its own
KeyboardInterrupt == [type |-> "KeyboardInterrupt", args |-> <<>>]

\* the locals of _process_omop_folder, outside a call
ResetLocals ==
    /\ concept_columns' = 0
    /\ col' = 0
    /\ sql_files' = 0
    /\ file' = 0
    /\ pk_auto_numbering' = FALSE
    /\ pk_data_type' = NoType
    /\ foreign_key_columns' = {}
    /\ sql_file_list' = <<>>
    /\ sql_file' = NoFile
    /\ sql_group' = NoGroup
    /\ work_table' = NoRows
    /\ issued' = <<>>

\* run(): etl_start = date.today(), then the tables to loop over
run_begin ==
    /\ pc = "constructed"
    /\ pc' = "running"
    /\ etl_start' = today
    /\ run_start_day' = today
    /\ todo' = IF only_omop_table # NoTable THEN <<only_omop_table>>
               ELSE schema_order
    /\ UNCHANGED <<catalogVars, df_omop_fields, resolved, error, stage,
                   concept_columns, col, sql_files, file, pk_auto_numbering,
                   today, invalidate_count, invalidate_cutoff, folderVars,
                   cleanupVars,
                   keyVars, conceptVars>>

\* _process_omop_folder, up to the loop over the concept columns: the column
\* names and the primary key metadata are read from the database; reading
\* omop_table_props.pk raises when the schema file gives the table no pk
process_omop_folder_begin ==
    /\ InTable({"NOT_STARTED"})
    /\ IF omop_table_props[CurrentTable].has_pk
       THEN /\ stage' = [stage EXCEPT ![CurrentTable] = "START"]
            /\ concept_columns' \in 0..MaxConceptColumns
            /\ pk_data_type' \in DataTypes
            /\ pk_auto_numbering' = is_pk_auto_numbering(pk_data_type')
            /\ UNCHANGED <<pc, error>>
       ELSE /\ stage' = [stage EXCEPT ![CurrentTable] = "FAILED"]
            /\ pc' = "raised"
            /\ error' = AttributeError
            /\ UNCHANGED <<concept_columns, pk_data_type, pk_auto_numbering>>
    /\ col' = 0
    /\ sql_files' = 0
    /\ file' = 0
    /\ UNCHANGED <<catalogVars, df_omop_fields, resolved, todo,
                   today, etl_start, run_start_day, invalidate_count,
                   invalidate_cutoff, folderVars, cleanupVars, omop_table_props,
                   foreign_key_columns, sql_file_list, sql_file, sql_group, work_table, omop_rows,
                   run_result, conceptVars>>

\* fault: the custom concepts are uploaded whatever the skip flag is
upload_custom_concepts_always ==
    /\ InTable({"START", "LOAD_CODE_MAPPINGS"})
    /\ col < concept_columns
    /\ col' = col + 1
    /\ stage' = [stage EXCEPT ![CurrentTable] = "LOAD_CONCEPTS"]
    /\ \E codes \in {{}, cdm_folder.concept_codes} :
          LET uploaded == CustomConceptsOf(CurrentTable, col + 1, codes)
              swap     == give_custom_concepts_an_unique_id_above_2bilj(
                              concept_id_swap, uploaded)
          IN  /\ issued' = UploadStatements(codes)
              /\ IF UploadReturns(codes)
                 THEN UNCHANGED <<concept_id_swap, concept>>
                 ELSE /\ concept_id_swap' = swap
                      /\ concept' = CONCEPT_merge(concept, swap, uploaded)
    /\ UNCHANGED <<catalogVars, df_omop_fields, resolved, error, pc, todo,
                   concept_columns, sql_files, file, pk_auto_numbering,
                   today, etl_start, run_start_day, invalidate_count,
                   invalidate_cutoff, folderVars, cleanupVars, keyVars, usagi,
                   source_to_concept_map>>

\* _upload_custom_concepts for the next concept column: the CSV files are
\* read; without rows the handler returns, else the rows are loaded, get
\* their ids and are merged into the concept table
upload_custom_concepts ==
    /\ InTable({"START", "LOAD_CODE_MAPPINGS"})
    /\ ~skip_upload
    /\ col < concept_columns
    /\ col' = col + 1
    /\ stage' = [stage EXCEPT ![CurrentTable] = "LOAD_CONCEPTS"]
    /\ \E codes \in {{}, cdm_folder.concept_codes} :
          LET uploaded == CustomConceptsOf(CurrentTable, col + 1, codes)
              swap     == give_custom_concepts_an_unique_id_above_2bilj(
                              concept_id_swap, uploaded)
          IN  /\ issued' = UploadStatements(codes)
              /\ IF UploadReturns(codes)
                 THEN UNCHANGED <<concept_id_swap, concept>>
                 ELSE /\ concept_id_swap' = swap
                      /\ concept' = CONCEPT_merge(concept, swap, uploaded)
    /\ UNCHANGED <<catalogVars, df_omop_fields, resolved, error, pc, todo,
                   concept_columns, sql_files, file, pk_auto_numbering,
                   today, etl_start, run_start_day, invalidate_count,
                   invalidate_cutoff, folderVars, cleanupVars, keyVars, usagi,
                   source_to_concept_map>>

\* _swap_usagi_source_value_for_concept_id
swap_usagi_source_value_for_concept_id(rows, swap, t, c) ==
    usagi_merge(rows, swap, t, c)

\* _store_usagi_source_value_to_concept_id_mapping
store_usagi_source_value_to_concept_id_mapping(map, rows, day) ==
    SOURCE_TO_CONCEPT_MAP_merge(map, rows, day)

\* _apply_usagi_mapping for the same concept column: the usagi table of the
\* column is emptied, the CSV files are read; without rows the handler
\* returns, else the rows are loaded, swapped and stored
apply_usagi_mapping ==
    /\ InTable({"LOAD_CONCEPTS"})
    /\ stage' = [stage EXCEPT ![CurrentTable] = "LOAD_CODE_MAPPINGS"]
    /\ \E rows \in {{}, cdm_folder.usagi_rows} :
          LET t       == CurrentTable
              others  == {r \in usagi : r.table # t \/ r.column # col}
              swapped == swap_usagi_source_value_for_concept_id(
                             rows, concept_id_swap, t, col)
          IN  /\ issued' = ApplyStatements(rows)
              /\ usagi' = others \cup swapped
              /\ source_to_concept_map' =
                     IF rows = {} THEN source_to_concept_map
                     ELSE store_usagi_source_value_to_concept_id_mapping(
                              source_to_concept_map, swapped, today)
    /\ UNCHANGED <<catalogVars, df_omop_fields, resolved, error, pc, todo,
                   concept_columns, col, sql_files, file, pk_auto_numbering,
                   today, etl_start, run_start_day, invalidate_count,
                   invalidate_cutoff, folderVars, cleanupVars, keyVars, concept_id_swap,
                   concept>>

\* _execute_query_from_sql_file_and_store_results_in_work_table: for the
\* first file of the sorted glob result, or for the file after a merged one;
\* then the foreign keys of the table are read from the catalog
execute_query_from_sql_file ==
    /\ \/ /\ ConceptsFinished
          /\ \E g \in Globs(CurrentTable, cdm_folder.sql_files) :
                sql_file_list' = SqlFileList(g)
          /\ sql_files' = Len(sql_file_list')
          /\ file' = 1
       \/ /\ InTable({"MERGE"})
          /\ file < sql_files
          /\ sql_file_list' = sql_file_list
          /\ sql_files' = sql_files
          /\ file' = file + 1
    /\ stage' = [stage EXCEPT ![CurrentTable] = "STAGE_QUERY"]
    /\ work_table' \in StagedRows(cdm_folder.staged_rows)
    /\ sql_file' = sql_file_list'[file'].name
    /\ sql_group' = IF CurrentTable \in EventTables THEN FirstGroup(sql_file')
                    ELSE NoGroup
    /\ foreign_key_columns' = FksOf(omop_table_props[CurrentTable])
    /\ UNCHANGED <<catalogVars, df_omop_fields, resolved, error, pc, todo,
                   concept_columns, col, pk_auto_numbering, today, etl_start,
                   run_start_day, invalidate_count, invalidate_cutoff,
                   folderVars, cleanupVars, omop_table_props, pk_data_type, omop_rows,
                   run_result, conceptVars>>

\* fault: the key swap is called whatever pk_auto_numbering is
swap_primary_key_always ==
    /\ InTable({"STAGE_QUERY"})
    /\ stage' = [stage EXCEPT ![CurrentTable] = "SWAP_KEYS"]
    /\ UNCHANGED <<catalogVars, df_omop_fields, resolved, error, pc, todo,
                   concept_columns, col, sql_files, file, pk_auto_numbering,
                   today, etl_start, run_start_day, invalidate_count,
                   invalidate_cutoff, folderVars, cleanupVars, keyVars, conceptVars>>

\* if pk_auto_numbering: _swap_primary_key_auto_numbering_column
swap_primary_key_auto_numbering_column ==
    /\ InTable({"STAGE_QUERY"})
    /\ pk_auto_numbering
    /\ stage' = [stage EXCEPT ![CurrentTable] = "SWAP_KEYS"]
    /\ UNCHANGED <<catalogVars, df_omop_fields, resolved, error, pc, todo,
                   concept_columns, col, sql_files, file, pk_auto_numbering,
                   today, etl_start, run_start_day, invalidate_count,
                   invalidate_cutoff, folderVars, cleanupVars, keyVars, conceptVars>>

\* the foreign key of the event column is taken from the file name and set
\* in vars(foreign_key_columns), the __dict__ of the namespace of the
\* catalog when the table has fks; then _merge_into_omop_table of the file
merge_into_omop_table ==
    /\ \/ InTable({"SWAP_KEYS"})
       \/ InTable({"STAGE_QUERY"}) /\ ~pk_auto_numbering
    /\ stage' = [stage EXCEPT ![CurrentTable] = "MERGE"]
    /\ LET t        == CurrentTable
           inferred == InferredFk(t, sql_group)
           fkc      == SetItems(foreign_key_columns, inferred)
       IN  /\ foreign_key_columns' = fkc
           /\ omop_table_props' =
                  IF inferred # {} /\ omop_table_props[t].has_fks
                  THEN [omop_table_props EXCEPT ![t].fks = fkc]
                  ELSE omop_table_props
           /\ omop_rows' = [omop_rows EXCEPT ![t] =
                  omop_table_merge(@, work_table, fkc,
                                   {r \in usagi : r.table = t})]
    /\ UNCHANGED <<catalogVars, df_omop_fields, resolved, error, pc, todo,
                   concept_columns, col, sql_files, file, pk_auto_numbering,
                   today, etl_start, run_start_day, invalidate_count,
                   invalidate_cutoff, folderVars, cleanupVars, sql_file_list, sql_file, sql_group, pk_data_type,
                   work_table, run_result, conceptVars>>

\* the values of max_parallel_tables and of max_worker_threads_per_table: the
\* size of a pool is one worker or more
PoolSizes == 1..MaxPoolSize

\* fault: run() goes on to the next table while this one is in its last stage
process_omop_folder_end_early ==
    /\ \/ InTable({"MERGE"}) /\ file = sql_files
       \/ ConceptsFinished
    /\ stage' = stage
    /\ todo' = Tail(todo)
    /\ ResetLocals
    /\ UNCHANGED <<catalogVars, df_omop_fields, resolved, error, pc, today,
                   etl_start, run_start_day, invalidate_count,
                   invalidate_cutoff, folderVars, cleanupVars, omop_table_props,
                   omop_rows, run_result, concept_id_swap, concept, usagi,
                   source_to_concept_map>>

\* _process_omop_folder returns: the last file is merged, or the glob found
\* no query file
process_omop_folder_end ==
    /\ \/ InTable({"MERGE"}) /\ file = sql_files
       \/ ConceptsFinished
    /\ stage' = [stage EXCEPT ![CurrentTable] = "DONE"]
    /\ todo' = Tail(todo)
    /\ ResetLocals
    /\ UNCHANGED <<catalogVars, df_omop_fields, resolved, error, pc, today,
                   etl_start, run_start_day, invalidate_count,
                   invalidate_cutoff, folderVars, cleanupVars, omop_table_props,
                   omop_rows, run_result, concept_id_swap, concept, usagi,
                   source_to_concept_map>>

\* a call of the current stage raises (executor error, malformed file,
\* missing primary key, interrupt of the run): nothing catches it, it
\* leaves run()
process_omop_folder_raises ==
    /\ InTable({"START", "LOAD_CONCEPTS", "LOAD_CODE_MAPPINGS", "STAGE_QUERY",
                "SWAP_KEYS", "MERGE"})
    /\ stage' = [stage EXCEPT ![CurrentTable] = "FAILED"]
    /\ pc' = "raised"
    /\ error' \in {ExecutorError, KeyboardInterrupt}
    /\ ResetLocals
    /\ UNCHANGED <<catalogVars, df_omop_fields, resolved, todo, today,
                   etl_start, run_start_day, invalidate_count,
                   invalidate_cutoff, folderVars, cleanupVars, omop_table_props,
                   omop_rows, run_result, concept_id_swap, concept, usagi,
                   source_to_concept_map>>

\* fault: the cutoff is the day on which the statement is issued
InvalidationCutoffToday == today

\* the argument of _source_to_concept_map_update_invalid_reason
InvalidationCutoff == etl_start

\* after the loop: _source_to_concept_map_update_invalid_reason(etl_start),
\* then run() returns
source_to_concept_map_update_invalid_reason ==
    /\ pc = "running"
    /\ todo = <<>>
    /\ invalidate_count' = invalidate_count + 1
    /\ invalidate_cutoff' = InvalidationCutoff
    /\ source_to_concept_map' =
           SOURCE_TO_CONCEPT_MAP_update_invalid_reason(
               source_to_concept_map, InvalidationCutoff)
    /\ run_result' = None
    /\ pc' = "returned"
    /\ UNCHANGED <<catalogVars, df_omop_fields, resolved, error, todo, stage,
                   concept_columns, col, sql_files, file, pk_auto_numbering,
                   today, etl_start, run_start_day, folderVars,
                   cleanupVars,
                   omop_table_props, foreign_key_columns, sql_file_list, sql_file, sql_group,
                   pk_data_type, work_table, omop_rows, concept_id_swap,
                   concept, usagi, issued>>

\* midnight passes during the run
Tick ==
    /\ pc = "running"
    /\ today < MaxDays
    /\ today' = today + 1
    /\ UNCHANGED <<catalogVars, df_omop_fields, resolved, error, pc, todo,
                   stage, concept_columns, col, sql_files, file,
                   pk_auto_numbering, etl_start, run_start_day,
                   invalidate_count, invalidate_cutoff, folderVars, cleanupVars, keyVars,
                   conceptVars>>

(***************************************************************************)
(* Etl.cleanup.  The name of a table is the sequence of its pieces between *)
(* underscores; the double underscore of the name of a work table gives an *)
(* empty piece: note_nlp__type_concept_id_usagi is                         *)
(*     <<"note", "nlp", "", "type", "concept", "id", "usagi">>.            *)
(* No piece of the names below is the beginning of another piece, so one   *)
(* name begins with another exactly if its pieces begin with the pieces of *)
(* the other.  What a statement of cleanup() does in the warehouse is in   *)
(* templates that are not part of the sources at hand: cleanup() is        *)
(* modelled by the statements it issues, with their arguments, and by the  *)
(* tables it deletes from the work dataset.                                *)
(***************************************************************************)
\* the default argument of cleanup()
All == <<"all">>

\* cleanup() has not been called
NoScope == <<>>

\* the keys of _omop_tables, in the order of the schema file
OmopTableKeys ==
    << <<"note">>, <<"note", "nlp">>, <<"observation">>,
       <<"observation", "period">>, <<"visit", "detail">>,
       <<"visit", "occurrence">>, <<"vocabulary">> >>

CatalogTables == {OmopTableKeys[i] : i \in 1..Len(OmopTableKeys)}

\* the tables that have a folder with queries and CSV files
FolderTables == CatalogTables \ {<<"vocabulary">>}

\* the arguments of cleanup()
Scopes == {All} \cup CatalogTables

\* the concept column of a table
CleanupColumn == <<"type", "concept", "id">>

\* the work tables the runs of table t leave: the upload tables of its custom
\* concepts and of its mappings, and the table of its query file lab.sql
ConceptUpload(t) == t \o <<"">> \o CleanupColumn \o <<"concept">>

UsagiUpload(t) == t \o <<"">> \o CleanupColumn \o <<"usagi">>

QueryWorkTable(t) == t \o <<"lab">>

WorkTablesOf(t) == {ConceptUpload(t), UsagiUpload(t), QueryWorkTable(t)}

\* the work datasets: what the runs of at most MaxCleanedTables tables left
WorkDatasets ==
    {UNION {WorkTablesOf(t) : t \in R} :
        R \in {X \in SUBSET FolderTables : Cardinality(X) <= MaxCleanedTables}}

\* every work table, table by table in the order of the schema file
AllWorkTables ==
    LET RECURSIVE from(_)
        from(i) ==
            IF i > Len(OmopTableKeys) THEN <<>>
            ELSE LET t == OmopTableKeys[i]
                 IN  <<ConceptUpload(t), QueryWorkTable(t), UsagiUpload(t)>>
                         \o from(i + 1)
    IN  from(1)

Reverse(s) == [i \in 1..Len(s) |-> s[Len(s) + 1 - i]]

\* _get_work_tables: the names of the tables of the work dataset; the order
\* of the listing is the warehouse's, here one order or its reverse
get_work_tables(dataset) ==
    {SelectSeq(AllWorkTables, LAMBDA n : n \in dataset),
     SelectSeq(Reverse(AllWorkTables), LAMBDA n : n \in dataset)}

\* str.startswith
startswith(name, prefix) ==
    /\ Len(prefix) <= Len(name)
    /\ SubSeq(name, 1, Len(prefix)) = prefix

\* str.endswith("_" + piece)
endswith(name, piece) ==
    /\ Len(name) >= 2
    /\ name[Len(name)] = piece

\* the place of the first double underscore of a name
DoubleUnderscore(name) ==
    CHOOSE i \in 1..Len(name) :
        /\ name[i] = ""
        /\ \A j \in 1..(i - 1) : name[j] # ""

\* table_name.split("__")[0]
SplitTable(name) == SubSeq(name, 1, DoubleUnderscore(name) - 1)

\* table_name.split("__")[1].removesuffix("_concept") (or "_usagi")
SplitColumn(name) ==
    SubSeq(name, DoubleUnderscore(name) + 1, Len(name) - 1)

\* a statement cleanup() issues: the method called, and its arguments (the
\* column is <<>> for a method that takes none)
Statement(op, table, column) ==
    [op |-> op, table |-> table, column |-> column]

SourceToConceptMap == <<"source", "to", "concept", "map">>

\* the statements of the branch cleanup_table == "all"
CleanupAllStatements ==
    <<Statement("_truncate_omop_table", SourceToConceptMap, <<>>),
      Statement("_remove_custom_concepts_from_concept_table", <<>>, <<>>),
      Statement("_remove_custom_concepts_from_concept_relationship_table",
                <<>>, <<>>),
      Statement("_remove_custom_concepts_from_concept_ancestor_table",
                <<>>, <<>>)>>

\* the methods that remove by an upload table of the work dataset
RemovalsByConceptUpload ==
    <<"_remove_custom_concepts_from_concept_table_using_usagi_table",
      "_remove_custom_concepts_from_concept_relationship_table_using_usagi_table",
      "_remove_custom_concepts_from_concept_ancestor_table_using_usagi_table">>

RemovalByUsagiUpload == "_remove_source_to_concept_map_using_usagi_table"

\* the body of the loop of the branch of one table, for one work table
CleanupOfWorkTable(scope, name) ==
    IF startswith(name, scope) /\ endswith(name, "concept")
    THEN [i \in 1..3 |->
             Statement(RemovalsByConceptUpload[i], SplitTable(name),
                       SplitColumn(name))]
    ELSE IF startswith(name, scope) /\ endswith(name, "usagi")
    THEN <<Statement(RemovalByUsagiUpload, SplitTable(name),
                     SplitColumn(name))>>
    ELSE <<>>

\* "custom cleanup": the branch of "all", or the loop over work_tables
RECURSIVE CleanupOfWorkTables(_, _)
CleanupOfWorkTables(scope, names) ==
    IF names = <<>> THEN <<>>
    ELSE CleanupOfWorkTable(scope, Head(names))
             \o CleanupOfWorkTables(scope, Tail(names))

custom_cleanup(scope, names) ==
    IF scope = All THEN CleanupAllStatements
    ELSE CleanupOfWorkTables(scope, names)

\* "delete work tables": the work tables the loop deletes, in order
DeletedWorkTables(scope, names) ==
    SelectSeq(names, LAMBDA n : scope = All \/ startswith(n, scope))

delete_work_tables(scope, names) ==
    LET d == DeletedWorkTables(scope, names)
    IN  [i \in 1..Len(d) |-> Statement("_delete_work_table", d[i], <<>>)]

\* fault: vocabulary is truncated like every other key
truncate_every_key(scope) ==
    LET k == SelectSeq(OmopTableKeys, LAMBDA x : scope = All \/ x = scope)
    IN  [i \in 1..Len(k) |-> Statement("_truncate_omop_table", k[i], <<>>)]

\* "truncate omop tables": the loop over the keys of _omop_tables
truncate_omop_tables(scope) ==
    LET k == SelectSeq(OmopTableKeys,
                       LAMBDA x : /\ x # <<"vocabulary">>
                                  /\ (scope = All \/ x = scope))
    IN  [i \in 1..Len(k) |-> Statement("_truncate_omop_table", k[i], <<>>)]

\* fault: the work tables are deleted before the custom cleanup reads them
CleanupDeletesFirst(scope, names) ==
    delete_work_tables(scope, names)
        \o custom_cleanup(scope, names)
        \o truncate_omop_tables(scope)

\* the statements of cleanup(scope), in the order they are issued
CleanupStatements(scope, names) ==
    custom_cleanup(scope, names)
        \o delete_work_tables(scope, names)
        \o truncate_omop_tables(scope)

\* Etl.cleanup(cleanup_table)
cleanup ==
    /\ pc = "constructed"
    /\ \E scope \in Scopes : \E names \in get_work_tables(work_dataset) :
          /\ cleanup_table' = scope
          /\ work_tables' = names
          /\ cleanup_statements' = CleanupStatements(scope, names)
          /\ LET d == DeletedWorkTables(scope, names)
             IN  work_dataset' = work_dataset \ {d[i] : i \in 1..Len(d)}
    /\ UNCHANGED <<catalogVars, df_omop_fields, resolved, error, pc, runVars,
                   folderVars, keyVars, conceptVars>>

(***************************************************************************)
(* Properties of the resolver (specification SpecResolver).                *)
(***************************************************************************)
\* the number of places of the tier list that hold table t
Occurrences(tree, t) ==
    Cardinality({p \in (1..Len(tree)) \X (1..MaxTables + 2) :
                    p[2] <= Len(tree[p[1]]) /\ tree[p[1]][p[2]] = t})

AllTiered(tree) == UNION {TierSet(tree, i) : i \in 0..(Len(tree) - 1)}

\* C1: for an acyclic foreign-key graph (self-references ignored) the
\* resolver returns a tier list that holds every working table exactly once
\* and nothing else, and every foreign-key target of a table of tier i lies
\* in a tier with a smaller index.
C1_TiersPartitionAndOrder ==
    (pc # "new" /\ ~IsCyclic(FkGraph)) =>
        /\ pc # "ctor_raised"
        /\ AllTiered(resolved) = omop_tables
        /\ \A t \in omop_tables : Occurrences(resolved, t) = 1
        /\ \A t \in omop_tables : \A u \in FkGraph[t] :
              \A i \in TiersOf(resolved, t) :
                 \E j \in TiersOf(resolved, u) : j < i

\* a chain of three tables has been resolved into three tiers
C1_Witness ==
    /\ pc = "constructed"
    /\ ~IsCyclic(FkGraph)
    /\ Cardinality(omop_tables) = 3
    /\ Len(resolved) = 3
    /\ \E t \in omop_tables : Cardinality(FkGraph[t]) = 2

\* C2: when the foreign-key graph has a cycle of two or more tables the
\* resolution fails with the circular-reference error, returns no tier list
\* (no prefix of tiers either) and the stored tier list stays empty.
C2_CycleFailsWithoutOutput ==
    (pc # "new" /\ IsCyclic(FkGraph)) =>
        /\ pc = "ctor_raised"
        /\ error = CircularError
        /\ resolved = <<>>
        /\ LET r == build_fk_dependency_tree_of_tables(df_omop_fields, omop_tables)
           IN  r.raised /\ r.tree = <<>>

\* the constructor raised on a cycle although a first tier could be peeled
C2_Witness ==
    /\ pc = "ctor_raised"
    /\ IsCyclic(FkGraph)
    /\ \E t \in omop_tables : FkGraph[t] = {}

\* the table names the raised exception carries in its arguments
ErrorTables == {error.args[i] : i \in 1..Len(error.args)} \cap TableNames

\* C3: when resolution fails because of a cycle, the error reports the names
\* of the unresolved tables, which include every table on the cycle.
C3_ErrorNamesCycle ==
    pc = "ctor_raised" => OnCycle(FkGraph) \subseteq ErrorTables

ScenarioA ==
    /\ omop_tables = {"person", "visit_occurrence", "condition_occurrence"}
    /\ FkGraph["person"] = {}
    /\ FkGraph["visit_occurrence"] = {"person"}
    /\ FkGraph["condition_occurrence"] = {"visit_occurrence", "person"}

\* C4: every table is placed in the earliest possible tier: tier 0 is exactly
\* the set of tables without foreign keys (self-references removed), every
\* table of a tier i > 0 has a foreign key to a table of tier i-1, and
\* person; visit_occurrence -> person; condition_occurrence ->
\* {visit_occurrence, person} resolves to
\* [[person], [visit_occurrence], [condition_occurrence]].
C4_EarliestTier ==
    /\ (pc # "new" /\ ~IsCyclic(FkGraph)) =>
          /\ Len(resolved) >= 1
          /\ TierSet(resolved, 0) = {t \in omop_tables : FkGraph[t] = {}}
          /\ \A i \in 1..(Len(resolved) - 1) :
                \A t \in TierSet(resolved, i) :
                   FkGraph[t] \cap TierSet(resolved, i - 1) # {}
    /\ (pc # "new" /\ ScenarioA) =>
          resolved = << <<"person">>, <<"visit_occurrence">>,
                        <<"condition_occurrence">> >>

\* scenario A has been resolved
C4_Witness == pc = "constructed" /\ ScenarioA

\* C21: within every tier of the resolved tier list the table names are in
\* ascending lexicographic order, without duplicates.
C21_TiersSortedAscending ==
    pc = "constructed" =>
        \A i \in 1..Len(resolved) :
            \A j \in 1..Len(resolved[i]) : \A k \in 1..Len(resolved[i]) :
                j < k => Rank(resolved[i][j]) < Rank(resolved[i][k])

\* two tables that depend on a third one are resolved into the second tier
C21_Witness ==
    /\ pc = "constructed"
    /\ Len(resolved) >= 2
    /\ Len(resolved[2]) >= 2

C23_NoteNlpAfterNote ==
    /\ pc # "new" => "note" \in df_omop_fields["note_nlp"]
    /\ (pc = "constructed" /\ {"note", "note_nlp"} \subseteq omop_tables) =>
           /\ TiersOf(resolved, "note") # {}
           /\ TiersOf(resolved, "note_nlp") # {}
           /\ \A i \in TiersOf(resolved, "note") :
                  \A j \in TiersOf(resolved, "note_nlp") : i < j

\* note refers to person and note_nlp, by the correction alone or not, to
\* note: three tiers
C23_Witness ==
    /\ pc = "constructed"
    /\ resolved = <<<<"person">>, <<"note">>, <<"note_nlp">>>>
    /\ df_omop_fields["note_nlp"] = {"note"}

\* the catalog without the references of a table to itself
WithoutSelfReferences(fields) ==
    [t \in DOMAIN fields |-> fields[t] \ {t}]

\* C24: self-references are removed before layering: the resolver gives for
\* a catalog what it gives for the catalog without the self-references (no
\* circular-dependency error because of them, no table in a later tier), and
\* a table whose only foreign keys into the working set are self-references
\* is in the first tier.
C24_SelfReferencesIgnored ==
    pc # "new" =>
        /\ build_fk_dependency_tree_of_tables(df_omop_fields, omop_tables)
             = build_fk_dependency_tree_of_tables(
                   WithoutSelfReferences(df_omop_fields), omop_tables)
        /\ (pc = "ctor_raised") =
               IsCyclic(GraphOf(WithoutSelfReferences(df_omop_fields),
                                omop_tables))
        /\ pc = "constructed" =>
               \A t \in omop_tables :
                   df_omop_fields[t] \cap omop_tables \subseteq {t}
                       => t \in TierSet(resolved, 0)

\* person refers to itself only and is in the first tier; visit_occurrence
\* refers to itself and to person and is in the second
C24_Witness ==
    /\ pc = "constructed"
    /\ "person" \in df_omop_fields["person"]
    /\ "person" \in TierSet(resolved, 0)
    /\ {"person", "visit_occurrence"}
          \subseteq df_omop_fields["visit_occurrence"]
    /\ Len(resolved) >= 2
    /\ "visit_occurrence" \in TierSet(resolved, 1)

\* the remaining tables and the remaining foreign-key targets of the dict of
\* the loop
Remaining(d) ==
    Cardinality(DOMAIN d)
        + Cardinality({p \in (DOMAIN d) \X FkTargets : p[2] \in d[p[1]]})

\* the dict at the head of each pass of the loop, for at most n passes
RECURSIVE LoopHeads(_, _)
LoopHeads(d, n) ==
    IF DOMAIN d = {} \/ n = 0 \/ NextTier(d) = {} THEN <<d>>
    ELSE <<d>> \o LoopHeads(CleanUp(d, NextTier(d)), n - 1)

\* the dict the loop is entered with
LoopStart(fields, tables) ==
    LET d0 == RemoveSelfReferences(GroupFks(fields, tables))
    IN  DropFirstTier(d0, TablesWithNoFks(d0))

\* C30: the resolver terminates on every table set and foreign-key relation:
\* the call returns a tier list or raises the circular-reference error, and
\* every pass of the loop that does not raise leaves fewer remaining tables
\* and foreign-key targets than it found.
C30_ResolverTerminates ==
    pc # "new" =>
        /\ pc \in {"constructed", "ctor_raised"}
        /\ (pc = "constructed") = (error = NoError)
        /\ LET heads == LoopHeads(LoopStart(df_omop_fields, omop_tables),
                                  MaxLoopPasses)
           IN  \A i \in 1..(Len(heads) - 1) :
                   Remaining(heads[i + 1]) < Remaining(heads[i])

\* two passes of the loop have returned three tiers
C30_Witness ==
    /\ pc = "constructed"
    /\ Len(resolved) = 3
    /\ Len(LoopHeads(LoopStart(df_omop_fields, omop_tables), MaxLoopPasses))
          = 3

\* C31: the resolver never returns an empty tier: for every acyclic input,
\* the empty table set included, every tier of the returned tier list holds
\* at least one table.
C31_NoEmptyTier ==
    pc = "constructed" =>
        \A i \in 1..Len(resolved) : Len(resolved[i]) >= 1

(***************************************************************************)
(* Properties of run() (specification Spec).                               *)
(***************************************************************************)
\* the foreign-key graph the constructor resolves (the NOTE_NLP correction
\* applied), whether or not the constructor has run yet
PatchedGraph == GraphOf(PatchNoteNlp(df_omop_fields), omop_tables)

RunEnded == pc \in {"returned", "raised"}

FullRun == only_omop_table = NoTable /\ pc \in {"running", "returned", "raised"}

\* C5: tier barrier: during a run no table of tier i+1 begins its pipeline
\* until every table of tier i has reached DONE or FAILED.
C5_TierBarrier ==
    FullRun =>
        \A t \in omop_tables : \A u \in omop_tables :
            ( /\ stage[t] # "NOT_STARTED"
              /\ \E i \in TiersOf(resolved, t) : (i - 1) \in TiersOf(resolved, u) )
            => stage[u] \in {"DONE", "FAILED"}

\* C6: failure isolation: when one table of a tier fails, every other table
\* of the same tier still runs to DONE or FAILED and no table of the next
\* tier is started, as the state at the end of the run shows.
C6_FailureIsolation ==
    (FullRun /\ RunEnded) =>
        \A t \in omop_tables : stage[t] = "FAILED" =>
            \A u \in omop_tables :
                /\ TiersOf(resolved, u) = TiersOf(resolved, t)
                      => stage[u] \in {"DONE", "FAILED"}
                /\ (\E i \in TiersOf(resolved, t) : (i + 1) \in TiersOf(resolved, u))
                      => stage[u] = "NOT_STARTED"

Step(t) == <<stage[t], stage'[t]>>

\* the chain START, LOAD_CONCEPTS, LOAD_CODE_MAPPINGS, STAGE_QUERY, SWAP_KEYS,
\* MERGE, DONE with no stage skipped but SWAP_KEYS
StrictSteps ==
    {<<"NOT_STARTED", "START">>, <<"START", "LOAD_CONCEPTS">>,
     <<"LOAD_CONCEPTS", "LOAD_CODE_MAPPINGS">>,
     <<"LOAD_CODE_MAPPINGS", "STAGE_QUERY">>, <<"STAGE_QUERY", "SWAP_KEYS">>,
     <<"STAGE_QUERY", "MERGE">>, <<"SWAP_KEYS", "MERGE">>, <<"MERGE", "DONE">>}

FailSteps ==
    {<<s, "FAILED">> : s \in Stages \ {"NOT_STARTED", "DONE", "FAILED"}}

\* the swap step is entered if and only if the primary key is auto-numbering
SwapIffAutoNumbering(t) ==
    /\ stage'[t] = "SWAP_KEYS" => pk_auto_numbering
    /\ Step(t) = <<"STAGE_QUERY", "MERGE">> => ~pk_auto_numbering

\* C7 as stated: each table's pipeline passes through START, LOAD_CONCEPTS,
\* LOAD_CODE_MAPPINGS, STAGE_QUERY, SWAP_KEYS (only if the primary key needs
\* auto-numbering), MERGE, DONE strictly in that order, no stage skipped.
C7_StrictStageOrder ==
    [][\A t \in TableNames : stage'[t] # stage[t] =>
          /\ Step(t) \in StrictSteps \cup FailSteps
          /\ SwapIffAutoNumbering(t)]_vars

\* the steps of the loops: the next concept column, the next query file, and
\* the stages of a loop without iterations passed over
LoopSteps ==
    {<<"LOAD_CODE_MAPPINGS", "LOAD_CONCEPTS">>, <<"MERGE", "STAGE_QUERY">>,
     <<"START", "STAGE_QUERY">>, <<"START", "DONE">>,
     <<"LOAD_CODE_MAPPINGS", "DONE">>}

\* C7 (amended): after START, unless the skip flag is set, LOAD_CONCEPTS then
\* LOAD_CODE_MAPPINGS are passed once per concept column, column after
\* column; then STAGE_QUERY, SWAP_KEYS (if and only if the primary key is
\* auto-numbering), MERGE are passed once per query file, file after file;
\* then DONE.  The concept stages are passed over only when the skip flag is
\* set or the table has no concept column, the file stages only when the
\* table has no query file, and the concept stages end only when every
\* column has been handled, the file stages only after the last file.
C7_StageOrderPerColumnAndFile ==
    [][\A t \in TableNames : stage'[t] # stage[t] =>
          /\ Step(t) \in StrictSteps \cup LoopSteps \cup FailSteps
          /\ SwapIffAutoNumbering(t)
          /\ stage'[t] = "LOAD_CONCEPTS" => ~skip_upload /\ col < concept_columns
          /\ (stage[t] = "START" /\ stage'[t] \in {"STAGE_QUERY", "DONE"})
                => (skip_upload \/ concept_columns = 0)
          /\ (stage[t] = "LOAD_CODE_MAPPINGS" /\ stage'[t] \in {"STAGE_QUERY", "DONE"})
                => col = concept_columns
          /\ Step(t) = <<"MERGE", "STAGE_QUERY">> => file < sql_files
          /\ Step(t) = <<"MERGE", "DONE">> => file = sql_files
          /\ (stage'[t] = "DONE" /\ stage[t] # "MERGE") => sql_files = 0]_vars

\* the second query file of a table with two concept columns is being merged
\* after its key swap
C7_Witness ==
    /\ pc = "running"
    /\ todo # <<>>
    /\ stage[Head(todo)] = "MERGE"
    /\ pk_auto_numbering
    /\ ~skip_upload
    /\ col = 2
    /\ file = 2

\* C8: the stale-mapping invalidation is executed exactly once per run, after
\* all table processing has ended, when every table succeeded and when some
\* table failed, with the run start value as its cutoff.
C8_InvalidationOncePerRun ==
    /\ pc = "running" => invalidate_count = 0
    /\ RunEnded => invalidate_count = 1 /\ invalidate_cutoff = run_start_day

\* C9: a per-table error never propagates out of run(): the table is marked
\* FAILED and run() returns.
C9_ErrorsNeverLeaveRun ==
    (\E t \in omop_tables : stage[t] = "FAILED") => pc \in {"running", "returned"}

InFlightStages ==
    {"START", "LOAD_CONCEPTS", "LOAD_CODE_MAPPINGS", "STAGE_QUERY",
     "SWAP_KEYS", "MERGE"}

\* the tables whose pipeline has begun and not ended
TablesInFlight == {t \in omop_tables : stage[t] \in InFlightStages}

\* the query files of table t that are staged and not yet merged
FilesInFlight(t) ==
    IF InTable({"STAGE_QUERY", "SWAP_KEYS", "MERGE"}) /\ t = CurrentTable
    THEN {file} ELSE {}

\* C25: bounded concurrency: whatever the configured maxima are, the number
\* of tables processed at the same time never exceeds max_parallel_tables and
\* the number of query files of one table processed at the same time never
\* exceeds max_worker_threads_per_table.
C25_BoundedConcurrency ==
    /\ \A max_parallel_tables \in PoolSizes :
           Cardinality(TablesInFlight) <= max_parallel_tables
    /\ \A max_worker_threads_per_table \in PoolSizes :
           \A t \in TablesInFlight :
               Cardinality(FilesInFlight(t)) <= max_worker_threads_per_table

\* the second file of a table is merged, a table is done and another has not
\* been started
C25_Witness ==
    /\ InTable({"MERGE"})
    /\ file = 2
    /\ Cardinality(TablesInFlight) = 1
    /\ \E t \in omop_tables : stage[t] = "DONE"
    /\ \E t \in omop_tables : stage[t] = "NOT_STARTED"

\* the step in which the run is cancelled
CancelStep ==
    error # KeyboardInterrupt /\ error' = KeyboardInterrupt

\* C26: after a cancellation of the run no table that has not been started
\* is started, and the tables in flight go on to DONE or FAILED of their own:
\* the cancellation ends no pipeline and interrupts no merge that has begun.
C26_CancellationLetsTablesFinish ==
    [][/\ CancelStep => (stage' = stage /\ pc' = "running")
       /\ error = KeyboardInterrupt =>
              \A t \in omop_tables :
                  stage[t] = "NOT_STARTED" => stage'[t] = "NOT_STARTED"]_vars

\* the tables the value run() returned reports as failed
FailedReported ==
    IF run_result \in {None, NotReturned} THEN {} ELSE run_result.failed

\* C27: no retry: a stage issues each of its statements at most once for a
\* column or file, and a stage that errors or times out moves its table to
\* FAILED, which the report at the end of the run lists.
C27_NoRetryAndFailureReported ==
    /\ \A i \in 1..Len(issued) : \A j \in 1..Len(issued) :
           i # j => issued[i] # issued[j]
    /\ RunEnded =>
           /\ pc = "returned"
           /\ \A t \in omop_tables : stage[t] = "FAILED" => t \in FailedReported

(***************************************************************************)
(* Properties of the concept mapping (specification SpecConcepts).         *)
(***************************************************************************)
\* C12: the ids of the custom concepts are injective and stay in the reserved
\* space: two distinct custom concepts, of the same or of different columns,
\* have distinct ids, and every id is at least 2,000,000,000.
C12_CustomIdsInjectiveAndReserved ==
    /\ \A k1 \in DOMAIN concept_id_swap : \A k2 \in DOMAIN concept_id_swap :
           k1 # k2 => concept_id_swap[k1] # concept_id_swap[k2]
    /\ \A k \in DOMAIN concept_id_swap :
           concept_id_swap[k] >= CUSTOM_CONCEPT_IDS_START

\* two custom concepts of one column and one of another column got their ids
\* in this run, next to the concept of an earlier run
C12_Witness ==
    /\ pc = "running"
    /\ {<<"person", 1, "c1">>, <<"person", 1, "c2">>, <<"person", 2, "c1">>,
        <<"person", 2, "c2">>} \subseteq DOMAIN concept_id_swap
    /\ concept_id_swap[<<"person", 1, "c2">>] = CUSTOM_CONCEPT_IDS_START + 1

\* the step that is the call of _upload_custom_concepts for a column
UploadStep ==
    /\ pc = "running"
    /\ todo # <<>>
    /\ stage[Head(todo)] \in {"START", "LOAD_CODE_MAPPINGS"}
    /\ stage'[Head(todo)] = "LOAD_CONCEPTS"

\* C13: registering and merging the custom concepts of a column without input
\* records (no file, or files without rows) is a no-op that does not fail: no
\* id-assignment statement and no merge into the concept table is issued, the
\* concept tables stay as they are and the pipeline goes on.
C13_NoRecordsNoOp ==
    [][(UploadStep /\ cdm_folder.concept_codes = {}) =>
          /\ \A i \in 1..Len(issued') :
                 issued'[i] \notin
                     {"load_custom_concepts_parquet_in_upload_table",
                      "give_custom_concepts_an_unique_id_above_2bilj",
                      "merge_custom_concepts_with_the_omop_concepts"}
          /\ concept_id_swap' = concept_id_swap
          /\ concept' = concept
          /\ pc' = "running"
          /\ error' = NoError]_vars

\* the pipeline went on to the code mappings of the column after an upload
\* without records, the concept tables being those of the earlier run
C13_Witness ==
    /\ InTable({"LOAD_CODE_MAPPINGS"})
    /\ cdm_folder.concept_codes = {}
    /\ col = 1
    /\ concept_id_swap = PriorSwap
    /\ issued # <<>>

\* C14: a mapping whose status is not "approved" is left out of the merge:
\* every target concept id the merge of a table takes comes from an approved
\* mapping of the Usagi files or is the id of a custom concept of the table,
\* and the merge raises no error.
C14_OnlyApprovedMappingsMerged ==
    /\ \A t \in omop_tables : \A id \in omop_rows[t].concept_ids :
          \/ \E k \in DOMAIN concept_id_swap :
                k[1] = t /\ concept_id_swap[k] = id
          \/ \E r \in cdm_folder.usagi_rows :
                r.mappingStatus = "APPROVED" /\ r.conceptId = id
    /\ InTable({"MERGE"}) => error = NoError

\* a merge has inserted a row and taken a concept id while the usagi table of
\* the table holds an unchecked mapping, whose concept is not taken
C14_Witness ==
    /\ InTable({"MERGE"})
    /\ omop_rows[CurrentTable].rows >= 1
    /\ omop_rows[CurrentTable].concept_ids # {}
    /\ \E r \in usagi :
          /\ r.table = CurrentTable
          /\ r.mappingStatus = "UNCHECKED"
          /\ r.conceptId \notin omop_rows[CurrentTable].concept_ids

\* the step that is the call of _apply_usagi_mapping for a column
ApplyStep ==
    /\ pc = "running"
    /\ todo # <<>>
    /\ stage[Head(todo)] = "LOAD_CONCEPTS"
    /\ stage'[Head(todo)] = "LOAD_CODE_MAPPINGS"

\* the rows of the usagi table of a column
UsagiOf(rows, t, c) == {r \in rows : r.table = t /\ r.column = c}

\* at most one row per key (source code, source column, target table)
UniqueKeys(map) ==
    \A i \in 1..Len(map) : \A j \in 1..Len(map) :
        ( /\ map[i].source_code = map[j].source_code
          /\ map[i].column = map[j].column
          /\ map[i].table = map[j].table ) => i = j

\* C15: storing the mappings is idempotent: storing the same usagi rows a
\* second time leaves the mapping table as the first time left it, and the
\* table holds at most one row per key (source code, source column, target
\* table).
C15_StoreIdempotent ==
    [][ApplyStep =>
          /\ store_usagi_source_value_to_concept_id_mapping(
                 source_to_concept_map',
                 UsagiOf(usagi', Head(todo), col), today)
                = source_to_concept_map'
          /\ UniqueKeys(source_to_concept_map')]_vars

\* the mappings of a column are stored on the table an earlier run left: the
\* row of source code "s1" is written again, the row of "s0" is kept
C15_Witness ==
    /\ InTable({"LOAD_CODE_MAPPINGS"})
    /\ Len(issued) = 5
    /\ Len(source_to_concept_map) = 2
    /\ \E i \in 1..Len(source_to_concept_map) :
          /\ source_to_concept_map[i].source_code = "s1"
          /\ source_to_concept_map[i].touched = today
    /\ \E i \in 1..Len(source_to_concept_map) :
          source_to_concept_map[i].source_code = "s0"

\* the step that is the call of _source_to_concept_map_update_invalid_reason
InvalidateStep == pc = "running" /\ pc' = "returned"

\* C16: the invalidation with cutoff t marks invalid only rows last touched
\* strictly before t; every row stored or touched during the run, whose
\* cutoff is the day the run started, stays valid, and no row is deleted.
C16_InvalidationKeepsRowsOfTheRun ==
    [][InvalidateStep =>
          /\ Len(source_to_concept_map') = Len(source_to_concept_map)
          /\ \A i \in 1..Len(source_to_concept_map) :
                LET old == source_to_concept_map[i]
                    new == source_to_concept_map'[i]
                IN  /\ [new EXCEPT !.invalid_reason = old.invalid_reason] = old
                    /\ new.invalid_reason # old.invalid_reason =>
                           /\ new.invalid_reason = "D"
                           /\ old.touched < invalidate_cutoff'
                    /\ old.touched >= run_start_day =>
                           new.invalid_reason = "NULL"]_vars

\* a run that went past midnight has returned: the row it stored on its
\* first day is valid, the row of an earlier run it did not touch is not
C16_Witness ==
    /\ pc = "returned"
    /\ today > run_start_day
    /\ \E i \in 1..Len(source_to_concept_map) :
          /\ source_to_concept_map[i].touched = run_start_day
          /\ source_to_concept_map[i].invalid_reason = "NULL"
    /\ \E i \in 1..Len(source_to_concept_map) :
          /\ source_to_concept_map[i].touched < run_start_day
          /\ source_to_concept_map[i].invalid_reason = "D"

\* the mappings of a column are applied while its custom concepts are the
\* last thing uploaded, and the query files are handled after the last column
ConceptsThenMappingsThenQueries ==
    /\ InTable({"LOAD_CONCEPTS", "LOAD_CODE_MAPPINGS"}) =>
           ~skip_upload /\ col \in 1..concept_columns
    /\ InTable({"STAGE_QUERY", "SWAP_KEYS", "MERGE"}) =>
           skip_upload \/ col = concept_columns

\* the mappings of a column are applied in the step after its custom
\* concepts were merged, and the first query is staged after the mappings of
\* the last column
ColumnOrderStep ==
    \A t \in omop_tables :
        /\ Step(t)[2] = "LOAD_CODE_MAPPINGS" =>
               (Step(t)[1] = "LOAD_CONCEPTS" /\ col' = col /\ col >= 1)
               \/ Step(t)[1] = "LOAD_CODE_MAPPINGS"
        /\ Step(t)[2] = "LOAD_CONCEPTS" =>
               (Step(t)[1] \in {"START", "LOAD_CODE_MAPPINGS"} /\ col' = col + 1)
               \/ Step(t)[1] = "LOAD_CONCEPTS"
        /\ (Step(t)[2] = "STAGE_QUERY" /\ file' = 1) =>
               \/ Step(t)[1] = "STAGE_QUERY"
               \/ /\ Step(t)[1] \in {"START", "LOAD_CODE_MAPPINGS"}
                  /\ skip_upload \/ col = concept_columns

\* C28: for every table and concept column the custom concepts are
\* registered and merged before the mappings of the column are applied and
\* stored, so the ids given in this run are there when the mappings are
\* resolved; and all concept columns of a table are finished before its
\* first query is staged.
C28_ConceptsBeforeMappingsBeforeQueries ==
    /\ []ConceptsThenMappingsThenQueries
    /\ [][ColumnOrderStep]_vars

\* the first query is staged after two columns, for each of which custom
\* concepts were merged and mappings stored
C28_Witness ==
    /\ InTable({"STAGE_QUERY"})
    /\ file = 1
    /\ concept_columns = 2
    /\ col = 2
    /\ \A c \in 1..2 :
          /\ \E k \in DOMAIN concept_id_swap : k[1] = CurrentTable /\ k[2] = c
          /\ \E r \in usagi : r.table = CurrentTable /\ r.column = c

(***************************************************************************)
(* Properties of the key handling (specification SpecKeys).                *)
(***************************************************************************)
\* the tables of the working set other than t that the foreign keys of the
\* current file refer to
ReferencedTables(t) ==
    {e[2] : e \in foreign_key_columns} \cap (omop_tables \ {t})

\* C11: in a full run, whenever the key swap or the merge of a table T is
\* executed, every other table T refers to through a foreign key has completed
\* its own swap and merge earlier in the run.
C11_ReferencedTablesDoneBeforeSwapAndMerge ==
    (FullRun /\ InTable({"SWAP_KEYS", "MERGE"})) =>
        \A u \in ReferencedTables(CurrentTable) : stage[u] = "DONE"

\* the stages in which the call of _is_pk_auto_numbering has returned
PkKnown ==
    InTable({"START", "LOAD_CONCEPTS", "LOAD_CODE_MAPPINGS", "STAGE_QUERY",
             "SWAP_KEYS", "MERGE"})

\* C17: the primary key needs auto-numbering if and only if the table has a
\* primary key column of an integer type; for a table with a primary key of
\* another type or without primary key the answer is false, not an error,
\* and the key swap is not executed for the table.
C17_AutoNumberingIffIntegerPk ==
    /\ PkKnown =>
          (pk_auto_numbering <=>
              ( /\ omop_table_props[CurrentTable].has_pk
                /\ pk_data_type = "INT64" ))
    /\ InTable({"SWAP_KEYS"}) => pk_data_type = "INT64"
    /\ \A t \in omop_tables :
          ~omop_table_props[t].has_pk =>
              /\ stage[t] # "SWAP_KEYS"
              /\ ~(stage[t] = "FAILED" /\ error = AttributeError)

\* the DanglingReference entries of a table in the value run() returned
DanglingReferences(t) ==
    IF run_result \in {None, NotReturned} THEN 0 ELSE run_result.dangling[t]

\* C18: a staged row whose foreign key value has no swap entry is inserted
\* with the foreign key null, and the report of the run records one
\* DanglingReference of the table for it.
C18_DanglingReferenceInsertedAndReported ==
    pc = "returned" =>
        \A t \in omop_tables :
            /\ omop_rows[t].null_fks <= omop_rows[t].rows
            /\ DanglingReferences(t) = omop_rows[t].null_fks

\* the foreign keys the schema file gives a table
LoadedFks(t) ==
    PropsOf(omop_tables, df_omop_fields,
            {u \in omop_tables : omop_table_props[u].has_pk},
            {u \in omop_tables : omop_table_props[u].has_fks})[t].fks

\* C19: the foreign key inferred from the name of a query file applies to
\* that file only: the foreign keys passed to the merge of a file are those
\* of the schema file and the one inferred from the name of this file.
C19_InferredFkPerFileOnly ==
    InTable({"MERGE"}) =>
        foreign_key_columns \subseteq
            LoadedFks(CurrentTable) \cup InferredFk(CurrentTable, sql_group)

\* the pieces between underscores of the name of a table
Pieces(t) ==
    CASE t = "visit_occurrence" -> <<"visit", "occurrence">>
      [] t = "condition_occurrence" -> <<"condition", "occurrence">>
      [] t = "note_nlp" -> <<"note", "nlp">>
      [] OTHER -> <<t>>

\* the file name ends in _<t>
EndsIn(name, t) ==
    /\ Len(name) > Len(Pieces(t))
    /\ SubSeq(name, Len(name) - Len(Pieces(t)) + 1, Len(name)) = Pieces(t)

\* C29: for an event table (measurement, observation, cost, episode_event) a
\* query file whose name ends in _<T>, T the name of a supported event table,
\* names with underscores such as visit_occurrence included, makes the merge
\* of the file receive the event column as a foreign key to T.
C29_FileNameGivesEventForeignKey ==
    (InTable({"MERGE"}) /\ CurrentTable \in EventTables) =>
        \A t \in EventFkTables \cap TableNames :
            EndsIn(sql_file, t) =>
                <<EventColumn(CurrentTable), t>> \in foreign_key_columns

\* the loop over the query files is at a file of the list, and the list
\* holds the *.sql files before the *.sql.jinja files, each kind by name
QueryFilesInOrder ==
    InTable({"STAGE_QUERY", "SWAP_KEYS", "MERGE"}) =>
        /\ sql_files = Len(sql_file_list)
        /\ file \in 1..sql_files
        /\ sql_file = sql_file_list[file].name
        /\ \A i \in 1..sql_files : \A j \in 1..sql_files :
               i < j =>
                   /\ sql_file_list[i].jinja => sql_file_list[j].jinja
                   /\ sql_file_list[i].jinja = sql_file_list[j].jinja =>
                          FileRank(sql_file_list[i].name)
                              < FileRank(sql_file_list[j].name)

\* per file: the query is staged, the keys are swapped if and only if the
\* primary key is auto-numbering, the file is merged, once; the next file is
\* staged after the merge
FileSteps ==
    \A t \in omop_tables :
        stage'[t] # stage[t] =>
            /\ stage'[t] = "SWAP_KEYS" =>
                   Step(t)[1] = "STAGE_QUERY" /\ pk_auto_numbering
            /\ stage'[t] = "MERGE" =>
                   \/ Step(t)[1] = "SWAP_KEYS"
                   \/ Step(t)[1] = "STAGE_QUERY" /\ ~pk_auto_numbering
            /\ stage'[t] \in {"SWAP_KEYS", "MERGE"} =>
                   file' = file /\ sql_file_list' = sql_file_list
            /\ stage[t] = "STAGE_QUERY" =>
                   stage'[t] \in {"SWAP_KEYS", "MERGE", "FAILED"}
            /\ stage[t] = "SWAP_KEYS" => stage'[t] \in {"MERGE", "FAILED"}
            /\ stage[t] = "MERGE" =>
                   \/ stage'[t] = "FAILED"
                   \/ stage'[t] = "DONE" /\ file = sql_files
                   \/ /\ stage'[t] = "STAGE_QUERY"
                      /\ file' = file + 1
                      /\ sql_file_list' = sql_file_list
            /\ (stage'[t] = "STAGE_QUERY" /\ stage[t] # "MERGE") => file' = 1

\* C32: the query files of a table are handled one after the other in
\* sorted name order, all *.sql files before all *.sql.jinja files; for each
\* file the query is staged, then the keys are swapped (if and only if the
\* primary key is auto-numbering), then the file is merged, exactly once, and
\* the merge of a file ends before the next file is staged.
C32_QueryFilesInSortedOrder ==
    /\ []QueryFilesInOrder
    /\ [][FileSteps]_vars

\* lab_note.sql was handled first; a_person.sql.jinja, second although its
\* name sorts first, is merged after its key swap
C32_Witness ==
    /\ InTable({"MERGE"})
    /\ pk_auto_numbering
    /\ file = 2
    /\ sql_file_list = <<SqlFile(<<"lab", "note">>, FALSE),
                         SqlFile(<<"a", "person">>, TRUE)>>

\* C33: with the skip flag set run() issues no custom-concept and no
\* code-mapping operation for any table or column: no statement on an upload
\* table, no id given, nothing merged into concept or source_to_concept_map
\* (whose rows only the invalidation at the end of the run touches); the
\* query files are staged, swapped and merged as without the flag.
C33_SkipFlagSkipsConceptMapping ==
    [][skip_upload =>
          /\ UNCHANGED <<concept_id_swap, concept, usagi, issued>>
          /\ pc' # "returned" => UNCHANGED source_to_concept_map
          /\ Len(source_to_concept_map') = Len(source_to_concept_map)
          /\ \A t \in omop_tables :
                 stage'[t] \notin {"LOAD_CONCEPTS", "LOAD_CODE_MAPPINGS"}
          /\ FileSteps]_vars

\* with the flag set, a table of two concept columns whose folder holds
\* custom concepts and mappings has merged the row of its query file
C33_Witness ==
    /\ skip_upload
    /\ InTable({"MERGE"})
    /\ concept_columns = 2
    /\ cdm_folder.concept_codes # {}
    /\ cdm_folder.usagi_rows # {}
    /\ omop_rows[CurrentTable].rows >= 1
    /\ concept_id_swap = PriorSwap

\* C34: a run of one table processes only that table, and marks invalid no
\* stored mapping row that belongs to another target table.
C34_SingleTableRunKeepsOtherMappings ==
    /\ [](only_omop_table # NoTable =>
             \A t \in omop_tables :
                stage[t] # "NOT_STARTED" => t = only_omop_table)
    /\ [][InvalidateStep /\ only_omop_table # NoTable =>
             \A i \in 1..Len(source_to_concept_map) :
                source_to_concept_map[i].table # only_omop_table =>
                    source_to_concept_map'[i].invalid_reason =
                        source_to_concept_map[i].invalid_reason]_vars

\* the step that is the call of _merge_into_omop_table for a file whose
\* primary keys _swap_primary_key_auto_numbering_column has swapped
MergeAfterSwap ==
    /\ todo # <<>>
    /\ stage[Head(todo)] = "SWAP_KEYS"
    /\ stage'[Head(todo)] = "MERGE"

\* C35: the key swap and the merge of one query file receive the same
\* foreign-key specification: a foreign key inferred from the name of the
\* file is given to the swap as well as to the merge.
C35_SwapAndMergeSameForeignKeys ==
    [][MergeAfterSwap => foreign_key_columns' = foreign_key_columns]_vars

\* C20: the catalog is read-only after load: after a run the foreign keys
\* (and the primary key) the catalog holds for every table are those it held
\* before the run.
C20_CatalogUnchangedByRun ==
    pc = "returned" =>
        \A t \in omop_tables : omop_table_props[t].fks = LoadedFks(t)

(***************************************************************************)
(* Properties of cleanup() (specification SpecCleanup).                    *)
(***************************************************************************)
\* the table whose runs leave the work table
Owner(name) == CHOOSE t \in FolderTables : name \in WorkTablesOf(t)

\* the methods that read an upload table of the work dataset
UploadRemovals ==
    {RemovalsByConceptUpload[i] : i \in 1..3} \cup {RemovalByUsagiUpload}

Issued(op) ==
    {cleanup_statements[i].table :
        i \in {j \in 1..Len(cleanup_statements) :
                  cleanup_statements[j].op = op}}

\* C36: cleanup(tableName) of one table affects that table only: it deletes
\* no work table, removes no custom concept and no source-to-concept mapping,
\* and truncates no table of another table, a table whose name begins with
\* tableName included (note and note_nlp, observation and observation_period).
C36_CleanupOfOneTableOnly ==
    cleanup_table \in CatalogTables =>
        \A i \in 1..Len(cleanup_statements) :
            LET s == cleanup_statements[i]
            IN  /\ s.op = "_delete_work_table" =>
                       Owner(s.table) = cleanup_table
                /\ s.op \in UploadRemovals => s.table = cleanup_table
                /\ s.op = "_truncate_omop_table" => s.table = cleanup_table

CleanupStep ==
    \/ cleanup_statements' # cleanup_statements
    \/ cleanup_table' # cleanup_table

\* C38: cleanup never truncates vocabulary; cleanup("all") deletes every work
\* table that is in the work dataset when it starts and truncates every other
\* table of the catalog and source_to_concept_map; cleanup(tableName)
\* truncates the table of the catalog that is named tableName and no other.
C38_TruncationsOfCleanup ==
    /\ [](cleanup_table # NoScope =>
            /\ <<"vocabulary">> \notin Issued("_truncate_omop_table")
            /\ cleanup_table = All =>
                   /\ work_dataset = {}
                   /\ Issued("_truncate_omop_table") =
                          (CatalogTables \ {<<"vocabulary">>})
                              \cup {SourceToConceptMap}
            /\ cleanup_table # All =>
                   Issued("_truncate_omop_table") =
                       {cleanup_table} \ {<<"vocabulary">>})
    /\ [][cleanup_table' = All /\ CleanupStep =>
              /\ Issued("_delete_work_table")' = work_dataset
              /\ work_dataset' = {}]_vars

\* cleanup("all") has run on the work tables of two tables
C38_Witness ==
    /\ cleanup_table = All
    /\ Len(work_tables) = 6
    /\ work_dataset = {}
    /\ Cardinality(Issued("_truncate_omop_table")) = Len(OmopTableKeys)

(***************************************************************************)
(* Initial states                                                          *)
(***************************************************************************)
FieldsOf(S, E) ==
    [t \in TableNames |-> {e[2] : e \in {x \in E : x[1] = t}}]

InitRunVars ==
    /\ resolve_calls = 0
    /\ todo = <<>>
    /\ stage = [t \in TableNames |-> "NOT_STARTED"]
    /\ concept_columns = 0
    /\ col = 0
    /\ sql_files = 0
    /\ file = 0
    /\ pk_auto_numbering = FALSE
    /\ today = 0
    /\ etl_start = 0
    /\ run_start_day = 0
    /\ invalidate_count = 0
    /\ invalidate_cutoff = -1

\* no cleanup() has been called; the work dataset holds the tables named
InitCleanupVars(dataset) ==
    /\ cleanup_table = NoScope
    /\ work_tables = <<>>
    /\ work_dataset = dataset
    /\ cleanup_statements = <<>>

\* a folder without CSV rows, whose queries return no row; a table has at
\* most sql_files query files
EmptyFolder ==
    [concept_codes |-> {}, usagi_rows |-> {}, staged_rows |-> 0,
     sql_files |-> MaxSqlFiles]

InitKeyVars(props, folder) ==
    /\ omop_table_props = props
    /\ cdm_folder = folder
    /\ foreign_key_columns = {}
    /\ sql_file_list = <<>>
    /\ sql_file = NoFile
    /\ sql_group = NoGroup
    /\ pk_data_type = NoType
    /\ work_table = NoRows
    /\ omop_rows = [t \in DOMAIN props |->
                       [rows |-> 0, null_fks |-> 0, concept_ids |-> {}]]
    /\ run_result = NotReturned

\* the concepts of the vocabulary
Vocabulary == {[concept_id |-> 1, concept_code |-> "v1"]}

\* the concept tables as an earlier run left them: swap holds the custom
\* concepts that have an id, map the stored mappings
InitConceptVars(swap, map) ==
    /\ concept_id_swap = swap
    /\ concept = CONCEPT_merge(Vocabulary, swap, DOMAIN swap)
    /\ usagi = {}
    /\ source_to_concept_map = map
    /\ issued = <<>>

\* the resolver on every catalog of at most MaxFks foreign-key rows over every
\* working set of at most MaxTables tables
InitResolver ==
    /\ \E S \in {X \in SUBSET ResolverTables : Cardinality(X) <= MaxTables} :
         \E E \in SubsetsUpTo(S \X FkTargets, MaxFks) :
            /\ omop_tables = S
            /\ df_omop_fields = FieldsOf(S, E)
    /\ resolved = <<>>
    /\ error = NoError
    /\ pc = "new"
    /\ schema_order = <<>>
    /\ only_omop_table = NoTable
    /\ skip_upload = FALSE
    /\ InitRunVars
    /\ InitCleanupVars({})
    /\ InitKeyVars(PropsOf(omop_tables, df_omop_fields, TableNames,
                           TableNames), EmptyFolder)
    /\ InitConceptVars(<<>>, <<>>)

NextResolver ==
    \/ Construct
    \/ resolve_cdm_tables_fks_dependencies

SpecResolver == InitResolver /\ [][NextResolver]_vars

\* the working table sets of the run specification
RunTableSets ==
    {{"person", "visit_occurrence", "condition_occurrence"},
     {"note", "note_nlp", "person"}}

\* the order of the tables in the schema file: a table comes after the tables
\* its foreign keys refer to ("the sequence of the OMOP tables is extremely
\* important")
RespectsFks(order, G) ==
    \A i \in 1..Len(order) : \A u \in G[order[i]] :
        \E j \in 1..(i - 1) : order[j] = u

Init ==
    /\ \E S \in RunTableSets :
         \E E \in SubsetsUpTo(S \X S, MaxRunFks) :
            \E o \in Orderings(S) :
               LET G == GraphOf(PatchNoteNlp(FieldsOf(S, E)), S)
               IN  /\ IsCyclic(G) \/ RespectsFks(o, G)
                   /\ omop_tables = S
                   /\ df_omop_fields = FieldsOf(S, E)
                   /\ schema_order = o
                   /\ only_omop_table \in S \cup {NoTable}
    /\ skip_upload \in BOOLEAN
    /\ resolved = <<>>
    /\ error = NoError
    /\ pc = "new"
    /\ InitRunVars
    /\ InitCleanupVars({})
    /\ InitKeyVars(PropsOf(omop_tables, df_omop_fields, TableNames,
                           TableNames), EmptyFolder)
    /\ InitConceptVars(<<>>, <<>>)

\* a full run over one table, with and without the skip flag, with every
\* content of the custom concept and Usagi CSV files, on concept tables that
\* are empty or filled by an earlier run
InitConcepts ==
    /\ omop_tables = ConceptTables
    /\ df_omop_fields = FieldsOf(ConceptTables, {})
    /\ schema_order = <<"person">>
    /\ only_omop_table = NoTable
    /\ skip_upload \in BOOLEAN
    /\ resolved = <<>>
    /\ error = NoError
    /\ pc = "new"
    /\ InitRunVars
    /\ InitCleanupVars({})
    /\ \E codes \in SUBSET ConceptCodes : \E rows \in UsagiCsvs(SourceCodes) :
          InitKeyVars(PropsOf(omop_tables, df_omop_fields, TableNames,
                              TableNames),
                      [concept_codes |-> codes, usagi_rows |-> rows,
                       staged_rows |-> 1, sql_files |-> 1])
    /\ \E swap \in {<<>>, PriorSwap} : \E map \in {<<>>, PriorMap} :
          InitConceptVars(swap, map)

\* the catalogs of the key specification: the tables in the order of the
\* schema file, with the foreign keys the field catalog declares (all to
\* person) and the tables the schema file gives a pk; death has none
KeyCatalogs ==
    {[order |-> <<"person", "measurement", "note">>,
      fks   |-> {<<"measurement", "person">>, <<"note", "person">>},
      pks   |-> {"person", "measurement", "note"}],
     [order |-> <<"person", "death">>,
      fks   |-> {<<"death", "person">>},
      pks   |-> {"person"}]}

\* a run, full or of measurement only, over a folder without CSV files whose
\* queries stage up to MaxStagedRows rows
InitKeys ==
    /\ \E c \in KeyCatalogs :
          LET S == {c.order[i] : i \in 1..Len(c.order)}
          IN  /\ omop_tables = S
              /\ df_omop_fields = FieldsOf(S, c.fks)
              /\ schema_order = c.order
              /\ only_omop_table \in {NoTable} \cup (S \cap EventTables)
              /\ InitKeyVars(PropsOf(S, df_omop_fields, c.pks,
                                     {e[1] : e \in c.fks}),
                             [concept_codes |-> {}, usagi_rows |-> {},
                              staged_rows |-> MaxStagedRows,
                              sql_files |-> MaxSqlFiles])
    /\ skip_upload = FALSE
    /\ resolved = <<>>
    /\ error = NoError
    /\ pc = "new"
    /\ InitRunVars
    /\ InitCleanupVars({})
    /\ InitConceptVars(<<>>, <<>>)

\* a run of measurement only, over a folder that holds up to MaxSqlFiles
\* query files of both extensions, whose queries return no row; an earlier
\* run can have left mappings of person in the mapping table
InitFiles ==
    /\ omop_tables = {"person", "measurement"}
    /\ df_omop_fields = FieldsOf(omop_tables, {<<"measurement", "person">>})
    /\ schema_order = <<"person", "measurement">>
    /\ only_omop_table = "measurement"
    /\ skip_upload = FALSE
    /\ resolved = <<>>
    /\ error = NoError
    /\ pc = "new"
    /\ InitRunVars
    /\ InitCleanupVars({})
    /\ InitKeyVars(PropsOf(omop_tables, df_omop_fields, omop_tables,
                           {"measurement"}), EmptyFolder)
    /\ \E map \in {<<>>, PriorMap} : InitConceptVars(<<>>, map)

Next ==
    \/ Construct
    \/ run_begin
    \/ process_omop_folder_begin
    \/ upload_custom_concepts
    \/ apply_usagi_mapping
    \/ execute_query_from_sql_file
    \/ swap_primary_key_auto_numbering_column
    \/ merge_into_omop_table
    \/ process_omop_folder_end
    \/ process_omop_folder_raises
    \/ source_to_concept_map_update_invalid_reason
    \/ Tick

Spec == Init /\ [][Next]_vars

SpecConcepts == InitConcepts /\ [][Next]_vars

SpecKeys == InitKeys /\ [][Next]_vars

SpecFiles == InitFiles /\ [][Next]_vars

\* an Etl over the one table person, and a work dataset that the runs of at
\* most MaxCleanedTables tables of the schema file left
InitCleanup ==
    /\ omop_tables = {"person"}
    /\ df_omop_fields = FieldsOf(omop_tables, {})
    /\ schema_order = <<"person">>
    /\ only_omop_table = NoTable
    /\ skip_upload = FALSE
    /\ resolved = <<>>
    /\ error = NoError
    /\ pc = "new"
    /\ InitRunVars
    /\ \E d \in WorkDatasets : InitCleanupVars(d)
    /\ InitKeyVars(PropsOf(omop_tables, df_omop_fields, omop_tables, {}),
                   EmptyFolder)
    /\ InitConceptVars(<<>>, <<>>)

NextCleanup ==
    \/ Construct
    \/ cleanup

SpecCleanup == InitCleanup /\ [][NextCleanup]_vars

====
